---------------------------- MODULE Spec2Model ----------------------------
(***************************************************************************)
(* colprint: the format-string parser and the column renderer of           *)
(* ColumnFormatter (src/src/column_formatter.rs).                          *)
(*                                                                         *)
(* A Rust &str is modelled as the sequence of its Unicode scalars, each a  *)
(* one-character string.  Byte offsets are kept as the code keeps them     *)
(* (0-based, in UTF-8 bytes): "é" is a scalar of two bytes, every other    *)
(* scalar used here is ASCII and one byte long.                            *)
(* Option<T> is modelled as a sequence: None is <<>>, Some(x) is <<x>>.    *)
(***************************************************************************)
EXTENDS Integers, Sequences, FiniteSets, TLC

VARIABLES
    format_str,   \* the template handed to ColumnFormatter::new
    items,        \* ColumnFormatter.items : Vec<FormattableItem>
    formats,      \* ColumnFormatter.formats : Vec<ColumnFormat>
    buffer,       \* the write! calls format_columns made on its writer, in order
    output,       \* the String Display::fmt hands to the formatter
    args,         \* the $item arguments of a colprint! call (<<>> without the macro)
    format_specs, \* the macro's format_specs (<<>> without the macro)
    pc            \* ("macro" ->) "start" -> "built" (after new) -> "done" (after fmt)

vars == <<format_str, items, formats, buffer, output, args, format_specs, pc>>

None == <<>>
Some(x) == <<x>>

(***************************************************************************)
(* Bounds of the model.                                                    *)
(***************************************************************************)
\* Spec: a template is the concatenation of at most MaxPieces pieces.
MaxPieces == 4
\* SpecRender: a template holds at most MaxCols column pieces.
MaxCols == 3
\* SpecRender: at most MaxItems items are handed to the formatter.
MaxItems == 2
\* SpecMacro: a template is the concatenation of at most MaxMacroPieces pieces.
MaxMacroPieces == 3
\* SpecMacro: at most MaxArgs arguments follow the template.
MaxArgs == 2

(***************************************************************************)
(* Text primitives.                                                        *)
(***************************************************************************)
Digits == {"0", "1", "2", "3", "4", "5", "6", "7", "8", "9"}

DigitValue(c) ==
    CASE c = "0" -> 0 [] c = "1" -> 1 [] c = "2" -> 2 [] c = "3" -> 3
      [] c = "4" -> 4 [] c = "5" -> 5 [] c = "6" -> 6 [] c = "7" -> 7
      [] c = "8" -> 8 [] c = "9" -> 9

\* char::len_utf8
len_utf8(c) == IF c = "é" THEN 2 ELSE 1

\* The UTF-8 bytes of one scalar: an ASCII scalar is its own byte, "é" is the
\* two bytes 0xC3 0xA9 (neither of which is an ASCII byte).
Utf8(c) == IF c = "é" THEN <<"0xC3", "0xA9">> ELSE <<c>>

RECURSIVE as_bytes(_)
\* str::as_bytes
as_bytes(s) == IF s = <<>> THEN <<>> ELSE Utf8(Head(s)) \o as_bytes(Tail(s))

\* The char boundaries of s from its k-th scalar (1-based) on, the k-th
\* scalar starting at byte offset off: the offset of each scalar, then the
\* end of the string.
RECURSIVE BoundariesFrom(_, _, _)
BoundariesFrom(s, k, off) ==
    IF k > Len(s) THEN <<off>>
    ELSE <<off>> \o BoundariesFrom(s, k + 1, off + len_utf8(s[k]))

\* The byte offsets at which the scalars of s start, and the end of s.
Boundaries(s) == BoundariesFrom(s, 1, 0)

\* str::len: the length in bytes
str_len(s) == Boundaries(s)[Len(s) + 1]

\* str::char_indices: the pairs (byte offset, scalar), in order
char_indices(s) == LET bs == Boundaries(s) IN [k \in 1..Len(s) |-> <<bs[k], s[k]>>]

\* str::get(a..b): None unless a <= b and both are char boundaries of s
str_get(s, a, b) ==
    LET bs == Boundaries(s)
        ia == {k \in 1..Len(bs) : bs[k] = a}
        ib == {k \in 1..Len(bs) : bs[k] = b}
    IN  IF a <= b /\ ia # {} /\ ib # {}
        THEN Some(SubSeq(s, CHOOSE k \in ia : TRUE, (CHOOSE k \in ib : TRUE) - 1))
        ELSE None

\* Option<&str>::unwrap_or_default
unwrap_or_default(o) == IF o = None THEN <<>> ELSE o[1]

\* u8::is_ascii_digit, on a byte of as_bytes
is_ascii_digit(b) == b \in Digits

\* str::contains(pat), pat a non-empty string
contains(s, pat) ==
    \E k \in 1..Len(s) :
        k + Len(pat) - 1 <= Len(s) /\ SubSeq(s, k, k + Len(pat) - 1) = pat

RECURSIVE DecimalValue(_)
DecimalValue(w) ==
    IF w = <<>> THEN 0
    ELSE 10 * DecimalValue(SubSeq(w, 1, Len(w) - 1)) + DigitValue(w[Len(w)])

\* str::parse::<usize>().ok(), for the strings the parser hands it (runs of
\* ASCII digits, possibly empty): the empty string does not parse.  A run the
\* templates of this model can hold is far shorter than the 20 digits at which
\* usize overflows.
parse_usize(w) ==
    IF w # <<>> /\ \A k \in 1..Len(w) : w[k] \in Digits
    THEN Some(DecimalValue(w))
    ELSE None

RECURSIVE Concat(_)
\* The concatenation of a sequence of strings
Concat(ss) == IF ss = <<>> THEN <<>> ELSE Head(ss) \o Concat(Tail(ss))

\* " ".repeat(n)
repeat_space(n) == [k \in 1..n |-> " "]

Min(a, b) == IF a <= b THEN a ELSE b

SetMax(S) == IF S = {} THEN 0 ELSE CHOOSE m \in S : \A x \in S : x <= m

(***************************************************************************)
(* parse_format_string: the scan loop (lines 47-92), the trailing          *)
(* separator (94-99) and the construction of the column formats (101-135). *)
(***************************************************************************)
FormatPart(fmt, width) == [kind |-> "Format", text |-> fmt, width |-> width]
SeparatorPart(sep) == [kind |-> "Separator", text |-> sep, width |-> None]

\* A faulty variant of DigitsEnd: an `if` in place of the `while` of line 76,
\* so that at most one digit is taken.
DigitsEndOne(bytes, b) ==
    IF b < Len(bytes) /\ is_ascii_digit(bytes[b + 1]) THEN b + 1 ELSE b

\* The byte offset one past the run of ASCII digits that starts at byte
\* offset b (the while loop of lines 76-78).
RECURSIVE DigitsEnd(_, _)
DigitsEnd(bytes, b) ==
    IF b < Len(bytes) /\ is_ascii_digit(bytes[b + 1])
    THEN DigitsEnd(bytes, b + 1)
    ELSE b

\* The scan state before the loop.
ScanInit == [in_format |-> FALSE, start_byte_idx |-> 0, parts |-> <<>>]

\* Lines 52-61: a '{' met while no specifier is open.
OpenFormat(s, st, i) ==
    [in_format |-> TRUE,
     start_byte_idx |-> i,
     parts |-> IF i > st.start_byte_idx /\ str_get(s, st.start_byte_idx, i) # None
               THEN Append(st.parts, SeparatorPart(str_get(s, st.start_byte_idx, i)[1]))
               ELSE st.parts]

\* Lines 62-91: a '}' met while a specifier is open.
CloseFormat(s, st, i, c) ==
    LET end_byte_idx == i + len_utf8(c)
        format_bytes == as_bytes(s)
        colon == end_byte_idx < str_len(s) /\ format_bytes[end_byte_idx + 1] = ":"
        width_end_byte_idx ==
            IF colon THEN DigitsEnd(format_bytes, end_byte_idx + 1) ELSE end_byte_idx
        start_str == unwrap_or_default(str_get(s, st.start_byte_idx, end_byte_idx))
        width_str == unwrap_or_default(str_get(s, end_byte_idx + 1, width_end_byte_idx))
    IN  [in_format |-> FALSE,
         start_byte_idx |-> width_end_byte_idx,
         parts |-> Append(st.parts,
                          IF colon THEN FormatPart(start_str, Some(width_str))
                                   ELSE FormatPart(start_str, None))]

\* One iteration of the for loop of line 51 on the pair (i, c).
ScanStep(s, st, i, c) ==
    IF c = "{" /\ ~st.in_format THEN OpenFormat(s, st, i)
    ELSE IF c = "}" /\ st.in_format THEN CloseFormat(s, st, i, c)
    ELSE st

\* The loop of lines 51-92 from the k-th pair of the iterator ci on.
RECURSIVE ScanFrom(_, _, _, _)
ScanFrom(s, ci, st, k) ==
    IF k > Len(ci) THEN st
    ELSE ScanFrom(s, ci, ScanStep(s, st, ci[k][1], ci[k][2]), k + 1)

\* Lines 47-92: the scan of the whole template.
ScanLoop(s) == ScanFrom(s, char_indices(s), ScanInit, 1)

\* Lines 94-99: the trailing separator.
TrailingSeparator(s, st) ==
    IF st.start_byte_idx < str_len(s) /\ str_get(s, st.start_byte_idx, str_len(s)) # None
    THEN Append(st.parts, SeparatorPart(str_get(s, st.start_byte_idx, str_len(s))[1]))
    ELSE st.parts

\* Lines 43-99: the parts of a template.
ScanParts(s) == TrailingSeparator(s, ScanLoop(s))

\* A faulty variant of format_type_of: the two tests of lines 105-108 in the
\* other order.
format_type_of_debug_first(fmt_str) ==
    IF contains(fmt_str, <<":", "?">>) THEN "Debug"
    ELSE IF contains(fmt_str, <<":", "#", "?">>) THEN "PrettyDebug"
    ELSE "Display"

\* Lines 105-111: the format type of a specifier.
format_type_of(fmt_str) ==
    IF contains(fmt_str, <<":", "#", "?">>) THEN "PrettyDebug"
    ELSE IF contains(fmt_str, <<":", "?">>) THEN "Debug"
    ELSE "Display"

\* Line 114: the width of a specifier.
width_of(width_str) == IF width_str = None THEN None ELSE parse_usize(width_str[1])

\* Lines 117-125: the separator after part i (1-based here).
separator_after(parts, i) ==
    IF i + 1 <= Len(parts)
    THEN IF parts[i + 1].kind = "Separator" THEN Some(parts[i + 1].text) ELSE None
    ELSE None

\* Lines 127-131
ColumnFormat(parts, i) ==
    [format_type |-> format_type_of(parts[i].text),
     width |-> width_of(parts[i].width),
     separator |-> separator_after(parts, i)]

\* Lines 102-133: one column format for each Format part, in order.
RECURSIVE ProcessParts(_, _)
ProcessParts(parts, i) ==
    IF i > Len(parts) THEN <<>>
    ELSE (IF parts[i].kind = "Format" THEN <<ColumnFormat(parts, i)>> ELSE <<>>)
         \o ProcessParts(parts, i + 1)

parse_format_string(s) == ProcessParts(ScanParts(s), 1)


(***************************************************************************)
(* format_columns (lines 141-236) and Display::fmt (lines 239-252).        *)
(***************************************************************************)
\* FormattableItem: a DisplayItem can only be shown through Display, a
\* DebugItem only through Debug ({:?}) and pretty Debug ({:#?}).
DisplayItem(display) == [tag |-> "DisplayItem", display |-> display]
DebugItem(debug, pretty) == [tag |-> "DebugItem", debug |-> debug, pretty |-> pretty]

\* Lines 156-173: the text of an item under a format type.
formatted(item, format_type) ==
    IF item.tag = "DisplayItem" THEN item.display
    ELSE IF format_type = "PrettyDebug" THEN item.pretty
    ELSE item.debug

\* str::split_inclusive('\n')
RECURSIVE split_inclusive(_)
split_inclusive(s) ==
    IF s = <<>> THEN <<>>
    ELSE LET nl == {k \in 1..Len(s) : s[k] = "\n"}
         IN  IF nl = {} THEN <<s>>
             ELSE LET k == CHOOSE m \in nl : \A x \in nl : m <= x
                  IN  <<SubSeq(s, 1, k)>> \o split_inclusive(SubSeq(s, k + 1, Len(s)))

\* What str::lines does to one piece of split_inclusive: a final "\n" is
\* removed, and then a "\r" before it; a piece without "\n" is kept whole.
strip_line_ending(l) ==
    IF l # <<>> /\ l[Len(l)] = "\n"
    THEN LET m == SubSeq(l, 1, Len(l) - 1)
         IN  IF m # <<>> /\ m[Len(m)] = "\r" THEN SubSeq(m, 1, Len(m) - 1) ELSE m
    ELSE l

\* str::lines (line 175)
lines(s) == [k \in 1..Len(split_inclusive(s)) |-> strip_line_ending(split_inclusive(s)[k])]

\* Line 143
num_items(fs, its) == Min(Len(fs), Len(its))

\* Lines 150-177: formats zipped with items, the first num_items pairs, each
\* item formatted and split into lines.
formatted_items(fs, its) ==
    [k \in 1..Min(Min(Len(fs), Len(its)), num_items(fs, its)) |->
        lines(formatted(its[k], fs[k].format_type))]

\* A faulty variant of max_lines: the line count of the first cell.
max_lines_first(cells) == IF cells = <<>> THEN 0 ELSE Len(cells[1])

\* Line 180
max_lines(cells) == SetMax({Len(cells[k]) : k \in 1..Len(cells)})

\* A faulty variant of content_width: the longest line in bytes (len()).
content_width_bytes(item_lines) ==
    SetMax({str_len(item_lines[k]) : k \in 1..Len(item_lines)})

\* Line 192: the longest line of a cell, in scalars (chars().count()).
content_width(item_lines) == SetMax({Len(item_lines[k]) : k \in 1..Len(item_lines)})

\* Lines 183-196: the first num_items formats, each giving its width or,
\* without one, the content width of the cell of the same index (0 if none).
column_widths(fs, its, cells) ==
    [k \in 1..Min(Len(fs), num_items(fs, its)) |->
        IF fs[k].width # None THEN fs[k].width[1]
        ELSE IF k <= Len(cells) THEN content_width(cells[k]) ELSE 0]

\* A faulty variant of fit_line: the length of the line taken in bytes.
fit_line_bytes(line, column_width) ==
    IF str_len(line) > column_width THEN SubSeq(line, 1, Min(column_width, Len(line)))
    ELSE line \o repeat_space(column_width - str_len(line))

\* Lines 205-217: truncate or pad a line to the column width.
fit_line(line, column_width) ==
    IF Len(line) > column_width THEN SubSeq(line, 1, column_width)
    ELSE line \o repeat_space(column_width - Len(line))

\* Lines 201-221: the text of column item_idx in row line_idx (both 0-based).
cell_line(cells, widths, line_idx, item_idx) ==
    LET item_lines == cells[item_idx + 1]
        column_width == IF item_idx < Len(widths) THEN widths[item_idx + 1] ELSE 0
    IN  IF line_idx < Len(item_lines) THEN fit_line(item_lines[line_idx + 1], column_width)
        ELSE repeat_space(column_width)

\* One write on the writer: the call site ("line": line 223, "separator":
\* line 228, "newline": line 232), the loop indices and the text.
Write(site, line_idx, item_idx, text) ==
    [site |-> site, line_idx |-> line_idx, item_idx |-> item_idx, text |-> text]

\* A faulty variant of separator_writes: the test of line 226 off by one, so
\* that the last rendered column gets its separator too.
separator_writes_all(fs, its, line_idx, item_idx) ==
    IF item_idx < num_items(fs, its) /\ fs[item_idx + 1].separator # None
    THEN <<Write("separator", line_idx, item_idx, fs[item_idx + 1].separator[1])>>
    ELSE <<>>

\* Lines 226-230: the separator written after column item_idx, if any.
separator_writes(fs, its, line_idx, item_idx) ==
    IF item_idx < num_items(fs, its) - 1 /\ fs[item_idx + 1].separator # None
    THEN <<Write("separator", line_idx, item_idx, fs[item_idx + 1].separator[1])>>
    ELSE <<>>

\* A faulty variant of rendered_columns: one column short.
rendered_columns_short(fs, its, cells) == Min(Len(cells), num_items(fs, its) - 1)

\* Line 200: the columns the inner loop visits (enumerate().take(num_items)).
rendered_columns(fs, its, cells) == Min(Len(cells), num_items(fs, its))

\* Lines 200-231: the writes of row line_idx from column item_idx on.
RECURSIVE row_writes(_, _, _, _, _, _)
row_writes(fs, its, cells, widths, line_idx, item_idx) ==
    IF item_idx >= rendered_columns(fs, its, cells) THEN <<>>
    ELSE <<Write("line", line_idx, item_idx, cell_line(cells, widths, line_idx, item_idx))>>
         \o separator_writes(fs, its, line_idx, item_idx)
         \o row_writes(fs, its, cells, widths, line_idx, item_idx + 1)

\* Lines 199-233: the writes of the rows from line_idx on; a row ends with
\* the line break of writeln!.
RECURSIVE rows_writes(_, _, _, _, _)
rows_writes(fs, its, cells, widths, line_idx) ==
    IF line_idx >= max_lines(cells) THEN <<>>
    ELSE row_writes(fs, its, cells, widths, line_idx, 0)
         \o <<Write("newline", line_idx, rendered_columns(fs, its, cells), <<"\n">>)>>
         \o rows_writes(fs, its, cells, widths, line_idx + 1)

\* Lines 141-236: everything format_columns writes.
format_columns(fs, its) ==
    IF num_items(fs, its) = 0 THEN <<>>
    ELSE LET cells == formatted_items(fs, its)
             widths == column_widths(fs, its, cells)
         IN  rows_writes(fs, its, cells, widths, 0)

\* The bytes the writer holds, as text (lines 243-251).
buffer_text(writes) == Concat([k \in 1..Len(writes) |-> writes[k].text])

(***************************************************************************)
(* The colprint! macro (src/src/colprint.rs, lines 44-88).                 *)
(***************************************************************************)
\* An argument of the macro: a value that is both Display and Debug (the
\* expansion borrows it as &dyn Display in one branch and as &dyn Debug in
\* the other), given by its three renderings.
Arg(display, debug, pretty) == [display |-> display, debug |-> debug, pretty |-> pretty]

\* &fmt_str[a..b] (line 63): the slice, which exists because a and b are char
\* boundaries ('{' and '}' are one byte long).
str_index(s, a, b) == str_get(s, a, b)[1]

\* The scan state before the loop (lines 49-53).
MacroScanInit == [in_format |-> FALSE, start |-> 0, format_specs |-> <<>>]

\* One iteration of the for loop of line 55 on the pair (i, c) (lines 56-66).
MacroScanStep(s, st, i, c) ==
    IF c = "{" /\ ~st.in_format
    THEN [in_format |-> TRUE, start |-> i, format_specs |-> st.format_specs]
    ELSE IF c = "}" /\ st.in_format
    THEN [in_format |-> FALSE,
          start |-> st.start,
          format_specs |-> Append(st.format_specs, str_index(s, st.start, i + 1))]
    ELSE st

\* The loop of lines 55-67 from the k-th pair of the iterator ci on.
RECURSIVE MacroScanFrom(_, _, _, _)
MacroScanFrom(s, ci, st, k) ==
    IF k > Len(ci) THEN st
    ELSE MacroScanFrom(s, ci, MacroScanStep(s, st, ci[k][1], ci[k][2]), k + 1)

\* Lines 49-67: the format specifiers of a template.
macro_format_specs(s) == MacroScanFrom(s, char_indices(s), MacroScanInit, 1).format_specs

\* A faulty variant of is_debug_spec: only ":?" is looked for.
is_debug_spec_plain(spec) == contains(spec, <<":", "?">>)

\* Line 74: the specifier asks for Debug.
is_debug_spec(spec) == contains(spec, <<":", "#", "?">>) \/ contains(spec, <<":", "?">>)

\* Lines 74-78: the item pushed for an argument under a specifier.
macro_item(spec, arg) ==
    IF is_debug_spec(spec) THEN DebugItem(arg.debug, arg.pretty)
    ELSE DisplayItem(arg.display)

\* Lines 70-81: the expansion of $( ... )* over the arguments from the k-th
\* on (1-based), with the counter idx and the items pushed so far.
RECURSIVE MacroItemsFrom(_, _, _, _, _)
MacroItemsFrom(specs, as, k, idx, its) ==
    IF k > Len(as) THEN its
    ELSE IF idx < Len(specs)
    THEN MacroItemsFrom(specs, as, k + 1, idx + 1,
                        Append(its, macro_item(specs[idx + 1], as[k])))
    ELSE MacroItemsFrom(specs, as, k + 1, idx, its)

\* Lines 48, 69-81
macro_items(specs, as) == MacroItemsFrom(specs, as, 1, 0, <<>>)

(***************************************************************************)
(* Inputs.                                                                 *)
(***************************************************************************)
\* All sequences over S of length at most n.
SeqsUpTo(S, n) == UNION {[1..k -> S] : k \in 0..n}

\* Spec: the pieces templates are built from: every scalar of the alphabet on
\* its own, the three specifiers and a width suffix.
Pieces ==
    { <<"{">>, <<"}">>, <<":">>, <<"#">>, <<"?">>, <<"5">>, <<" ">>, <<"é">>,
      <<"{", "}">>, <<"{", ":", "?", "}">>, <<"{", ":", "#", "?", "}">>,
      <<":", "1", "2">> }

Templates == {Concat(ps) : ps \in SeqsUpTo(Pieces, MaxPieces)}

\* Spec: the item lists the parsed templates are rendered with.
ParseItems ==
    { <<>>,
      <<DisplayItem(<<"a", "b">>), DebugItem(<<"Z">>, <<"Z">>)>> }

\* SpecRender: the column pieces of a template: a specifier, a width suffix
\* and a separator.
ColPieces ==
    { <<"{", "}">>,
      <<"{", "}", " ", "|", " ">>,
      <<"{", ":", "?", "}", ":", "0">>,
      <<"{", ":", "#", "?", "}", ":", "3", "é">>,
      <<"{", ":", "5", "}", " ", "|", " ">> }

RenderTemplates == {Concat(ps) : ps \in SeqsUpTo(ColPieces, MaxCols)}

\* SpecRender: the items.
Items ==
    { DisplayItem(<<"a", "b">>),
      DisplayItem(<<"x">>),
      DisplayItem(<<"é", "é", "\r", "\n", "a", "b", "c", "\n">>),
      DisplayItem(<<>>),
      DebugItem(<<"L", "1", "\n", "L", "2">>,
                <<"[", "\n", " ", " ", "1", "2", ",", "\n", "]">>) }

ItemLists == SeqsUpTo(Items, MaxItems)

\* SpecMacro: the pieces of a template, and the arguments.
MacroPieces ==
    { <<"{">>, <<"}">>, <<":">>, <<"#">>, <<"?">>, <<"5">>, <<"é">>,
      <<"{", "}">>, <<"{", ":", "?", "}">>, <<"{", ":", "#", "?", "}">> }

MacroTemplates == {Concat(ps) : ps \in SeqsUpTo(MacroPieces, MaxMacroPieces)}

Args ==
    { Arg(<<"a">>, <<"D">>, <<"P", "\n", "p">>),
      Arg(<<"x">>, <<"[", "x", "]">>, <<"[", "\n", "x", "\n", "]">>) }

ArgLists == SeqsUpTo(Args, MaxArgs)

(***************************************************************************)
(* The state machine.                                                      *)
(***************************************************************************)
InitWith(templates, itemLists) ==
    /\ format_str \in templates
    /\ items \in itemLists
    /\ formats = <<>>
    /\ buffer = <<>>
    /\ output = <<>>
    /\ args = <<>>
    /\ format_specs = <<>>
    /\ pc = "start"

Init == InitWith(Templates, ParseItems)

InitRender == InitWith(RenderTemplates, ItemLists)

\* ColumnFormatter::new (lines 33-38)
New ==
    /\ pc = "start"
    /\ formats' = parse_format_string(format_str)
    /\ pc' = "built"
    /\ UNCHANGED <<format_str, items, buffer, output, args, format_specs>>

\* Display::fmt (lines 241-252): format_columns into a buffer, then the
\* buffer's text to the formatter.  The buffer is a Vec<u8>, whose writes
\* never fail, and holds the UTF-8 of strings, so from_utf8 succeeds.
Fmt ==
    /\ pc = "built"
    /\ buffer' = format_columns(formats, items)
    /\ output' = buffer_text(buffer')
    /\ pc' = "done"
    /\ UNCHANGED <<format_str, items, formats, args, format_specs>>

Next == New \/ Fmt

\* A call colprint!(format_str, args...).
InitMacro ==
    /\ format_str \in MacroTemplates
    /\ args \in ArgLists
    /\ items = <<>>
    /\ format_specs = <<>>
    /\ formats = <<>>
    /\ buffer = <<>>
    /\ output = <<>>
    /\ pc = "macro"

\* colprint! up to the construction of the formatter (colprint.rs, lines
\* 47-81): the scan for specifiers and the tagging of the arguments.
Colprint ==
    /\ pc = "macro"
    /\ format_specs' = macro_format_specs(format_str)
    /\ items' = macro_items(format_specs', args)
    /\ pc' = "start"
    /\ UNCHANGED <<format_str, args, formats, buffer, output>>

\* The macro, then ColumnFormatter::new (line 84) and println! of the
\* formatter (line 85), which calls Display::fmt.
NextMacro == Colprint \/ New \/ Fmt

Spec == Init /\ [][Next]_vars

SpecRender == InitRender /\ [][Next]_vars

SpecMacro == InitMacro /\ [][NextMacro]_vars


(***************************************************************************)
(* Reading a template as the claims do: its format tokens, their modes,    *)
(* their width suffixes and the text between them.                         *)
(***************************************************************************)
\* The first position at or after p at which s holds ch, or 0.
FirstAt(s, ch, p) ==
    LET K == {k \in p..Len(s) : s[k] = ch}
    IN  IF K = {} THEN 0 ELSE CHOOSE k \in K : \A j \in K : k <= j

\* The properly closed tokens from position p on: a '{' seen while no token
\* is open, up to the next '}'.
RECURSIVE TokensFrom(_, _)
TokensFrom(s, p) ==
    LET o == FirstAt(s, "{", p)
        c == IF o = 0 THEN 0 ELSE FirstAt(s, "}", o + 1)
    IN  IF o = 0 \/ c = 0 THEN <<>>
        ELSE <<[open |-> o, close |-> c]>> \o TokensFrom(s, c + 1)

Tokens(s) == TokensFrom(s, 1)

TokenText(s, t) == SubSeq(s, t.open, t.close)

\* s holds pat at position k.
HasAt(s, k, pat) ==
    k + Len(pat) - 1 <= Len(s) /\ \A j \in 1..Len(pat) : s[k + j - 1] = pat[j]

Holds(s, pat) == \E k \in 1..Len(s) : HasAt(s, k, pat)

ExpectedMode(text) ==
    IF Holds(text, <<":", "#", "?">>) THEN "PrettyDebug"
    ELSE IF Holds(text, <<":", "?">>) THEN "Debug"
    ELSE "Display"

\* The length of the run of ASCII digits that starts at position p.
DigitRun(s, p) ==
    Cardinality({d \in 1..(Len(s) - p + 1) : \A j \in p..(p + d - 1) : s[j] \in Digits})

\* The number a run of digits writes, read from the left.
RECURSIVE NumberFrom(_, _)
NumberFrom(w, acc) ==
    IF w = <<>> THEN acc ELSE NumberFrom(Tail(w), 10 * acc + DigitValue(Head(w)))

\* Token t is followed by a suffix ':N', N one or more digits.
HasWidthSuffix(s, t) ==
    /\ t.close + 1 <= Len(s)
    /\ s[t.close + 1] = ":"
    /\ DigitRun(s, t.close + 2) >= 1

\* The last position of token t and its width suffix, if it has one.
SuffixEnd(s, t) ==
    IF HasWidthSuffix(s, t) THEN t.close + 1 + DigitRun(s, t.close + 2) ELSE t.close

SuffixValue(s, t) == NumberFrom(SubSeq(s, t.close + 2, SuffixEnd(s, t)), 0)

\* Token t's '}' is followed by a ':' that no digit follows.
HasBareColon(s, t) ==
    /\ t.close + 1 <= Len(s)
    /\ s[t.close + 1] = ":"
    /\ DigitRun(s, t.close + 2) = 0

\* The text between token t (and its width suffix) and the later token u.
Between(s, t, u) == SubSeq(s, SuffixEnd(s, t) + 1, u.open - 1)

Opt(text) == IF text = <<>> THEN None ELSE Some(text)

\* The width written inside the braces of a token, as in {:5}, {:?:60} or
\* {:#?:100}: Some(N), or None when the token has no such width.
InBraceWidth(text) ==
    LET inner == SubSeq(text, 2, Len(text) - 1)
        D == {d \in 1..(Len(inner) - 1) :
                /\ \A j \in (Len(inner) - d + 1)..Len(inner) : inner[j] \in Digits
                /\ inner[Len(inner) - d] = ":"
                /\ SubSeq(inner, 1, Len(inner) - d - 1)
                       \in {<<>>, <<":", "?">>, <<":", "#", "?">>}}
    IN  IF D = {} THEN None
        ELSE LET d == CHOOSE x \in D : TRUE
             IN  Some(NumberFrom(SubSeq(inner, Len(inner) - d + 1, Len(inner)), 0))

Parsed == pc # "start"

(***************************************************************************)
(* The parser claims, under Spec.                                          *)
(***************************************************************************)
\* C1: a template with k properly closed tokens parses to exactly k
\* descriptors, in token order, and descriptor i is PrettyDebug if token i
\* holds ":#?", else Debug if it holds ":?", else Display.
C1_TokensAndModes ==
    Parsed =>
        LET ts == Tokens(format_str)
        IN  /\ Len(formats) = Len(ts)
            /\ \A i \in 1..Len(ts) :
                   formats[i].format_type = ExpectedMode(TokenText(format_str, ts[i]))

\* A parsed template with leading text and two tokens of different modes.
C1_Witness ==
    /\ pc = "built"
    /\ Len(formats) = 2
    /\ formats[1].format_type = "PrettyDebug"
    /\ formats[2].format_type = "Debug"
    /\ format_str[1] # "{"

\* C2: a suffix ':N' right after a token's '}' sets the descriptor's width
\* to Some(N) and lies in no separator (the descriptor's own separator
\* starts after the suffix, an earlier descriptor's separator ends before the
\* token); a token without such a suffix has width None.
C2_WidthSuffix ==
    Parsed =>
        LET s == format_str
            ts == Tokens(s)
        IN  /\ Len(formats) = Len(ts)
            /\ \A i \in 1..Len(ts) :
                 IF HasWidthSuffix(s, ts[i])
                 THEN /\ formats[i].width = Some(SuffixValue(s, ts[i]))
                      /\ formats[i].separator # None =>
                             HasAt(s, SuffixEnd(s, ts[i]) + 1, formats[i].separator[1])
                      /\ \A j \in 1..(i - 1) :
                             formats[j].separator # None =>
                                 Len(formats[j].separator[1]) <= ts[i].open - ts[j].close - 1
                 ELSE formats[i].width = None

\* A parsed template whose first token has the suffix ":12" and a separator
\* after it, and whose second token has no suffix.
C2_Witness ==
    /\ pc = "built"
    /\ Len(formats) = 2
    /\ formats[1].width = Some(12)
    /\ formats[1].separator # None
    /\ formats[2].width = None

\* C4: the text strictly between two consecutive tokens (after any width
\* suffix of the first) is the first token's separator, None when there is
\* none, and the last descriptor's separator is None.
C4_Separators ==
    Parsed =>
        LET s == format_str
            ts == Tokens(s)
        IN  /\ Len(formats) = Len(ts)
            /\ \A i \in 1..Len(ts) :
                 formats[i].separator =
                     IF i < Len(ts) THEN Opt(Between(s, ts[i], ts[i + 1])) ELSE None

\* C5: a ':' after a '}' that no digit follows stays separator text: the
\* descriptor has width None and a separator that starts with that ':';
\* "{}: {}" gives a first descriptor with width None and separator ": ".
C5_BareColonIsSeparator ==
    Parsed =>
        LET s == format_str
            ts == Tokens(s)
        IN  /\ Len(formats) = Len(ts)
            /\ \A i \in 1..Len(ts) :
                 HasBareColon(s, ts[i]) =>
                     /\ formats[i].width = None
                     /\ formats[i].separator # None
                     /\ Head(formats[i].separator[1]) = ":"
            /\ s = <<"{", "}", ":", " ", "{", "}">> =>
                 /\ formats[1].width = None
                 /\ formats[1].separator = Some(<<":", " ">>)

(***************************************************************************)
(* Reading the writes of format_columns as the claims do.                  *)
(***************************************************************************)
Rendered == pc = "done"

\* n: the number of columns the claims expect to be rendered.
N == IF Len(formats) <= Len(items) THEN Len(formats) ELSE Len(items)

\* The lines of value i rendered under descriptor i (1-based).
CellOf(i) == lines(formatted(items[i], formats[i].format_type))

\* The width the claims expect of column i (1-based): the explicit width,
\* else the longest line of the column's own cell in scalars, 0 without lines.
ExpectedWidth(i) ==
    IF formats[i].width # None THEN formats[i].width[1]
    ELSE IF CellOf(i) = <<>> THEN 0
    ELSE CHOOSE m \in {Len(CellOf(i)[k]) : k \in 1..Len(CellOf(i))} :
             \A k \in 1..Len(CellOf(i)) : Len(CellOf(i)[k]) <= m

\* The number of rows the claims expect: the longest of the n cells.
ExpectedRows ==
    IF N = 0 THEN 0
    ELSE CHOOSE m \in {Len(CellOf(i)) : i \in 1..N} : \A i \in 1..N : Len(CellOf(i)) <= m

\* A line cut or padded with spaces to exactly w scalars.
Fitted(line, w) == [k \in 1..w |-> IF k <= Len(line) THEN line[k] ELSE " "]

\* The cell the claims expect of column c in row r (both 0-based).
ExpectedCell(r, c) ==
    Fitted(IF r < Len(CellOf(c + 1)) THEN CellOf(c + 1)[r + 1] ELSE <<>>,
           ExpectedWidth(c + 1))

IsLine(w) == w.site = "line"
IsNewline(w) == w.site = "newline"

\* The writes that emit a cell, and the writes of row r, in order.
LineWrites == SelectSeq(buffer, IsLine)
RowWrites(r) == SelectSeq(buffer, LAMBDA w : w.line_idx = r)
RowLineWrites(r) == SelectSeq(buffer, LAMBDA w : w.line_idx = r /\ w.site = "line")

RowIndices == {buffer[k].line_idx : k \in 1..Len(buffer)}

\* The number of line breaks in a text.
LineBreaks(text) == Cardinality({k \in 1..Len(text) : text[k] = "\n"})

(***************************************************************************)
(* The renderer claims, under SpecRender.                                  *)
(***************************************************************************)
\* C3: a width written inside the braces of a token ({:5}, {:?:60},
\* {:#?:100}) is the column's explicit width; "{:5} | {}" with the Display
\* values "ab" and "x" renders as "ab    | x\n".
C3_InBraceWidth ==
    /\ Parsed =>
         LET ts == Tokens(format_str)
         IN  /\ Len(formats) = Len(ts)
             /\ \A i \in 1..Len(ts) :
                  InBraceWidth(TokenText(format_str, ts[i])) # None =>
                      formats[i].width = InBraceWidth(TokenText(format_str, ts[i]))
    /\ ( /\ Rendered
         /\ format_str = <<"{", ":", "5", "}", " ", "|", " ", "{", "}">>
         /\ items = <<DisplayItem(<<"a", "b">>), DisplayItem(<<"x">>)>> )
       => output = <<"a", "b", " ", " ", " ", " ", "|", " ", "x", "\n">>

\* C6: format_columns renders exactly n = min(d, v) columns in every row,
\* column i from descriptor i and value i, nothing from index n on; with
\* n = 0 it writes nothing, not even a line break.
C6_MinColumns ==
    Rendered =>
        /\ N = 0 => buffer = <<>> /\ output = <<>>
        /\ \A r \in RowIndices :
             /\ Len(RowLineWrites(r)) = N
             /\ \A c \in 0..(N - 1) :
                  /\ RowLineWrites(r)[c + 1].item_idx = c
                  /\ RowLineWrites(r)[c + 1].text = ExpectedCell(r, c)

\* Three descriptors rendered with two values, in at least one row.
C6_Witness ==
    /\ Rendered
    /\ Len(formats) = 3
    /\ Len(items) = 2
    /\ buffer # <<>>

\* C7: every emitted cell has exactly the column's width in scalars: a
\* longer line is cut to its first `width` scalars, a shorter one is padded
\* on the right with spaces.
C7_CellWidth ==
    Rendered =>
        \A k \in 1..Len(LineWrites) :
            LET w == LineWrites[k]
                cell == CellOf(w.item_idx + 1)
                width == ExpectedWidth(w.item_idx + 1)
            IN  /\ Len(w.text) = width
                /\ w.line_idx < Len(cell) =>
                     LET line == cell[w.line_idx + 1]
                     IN  IF Len(line) > width
                         THEN w.text = SubSeq(line, 1, width)
                         ELSE /\ SubSeq(w.text, 1, Len(line)) = line
                              /\ \A j \in (Len(line) + 1)..width : w.text[j] = " "

\* A rendering in which one non-empty line is cut to width 0 and one line
\* with a two-byte scalar is padded with a space.
C7_Witness ==
    /\ Rendered
    /\ \E k \in 1..Len(LineWrites) :
         LET w == LineWrites[k]
         IN  /\ w.line_idx < Len(CellOf(w.item_idx + 1))
             /\ CellOf(w.item_idx + 1)[w.line_idx + 1] # <<>>
             /\ w.text = <<>>
    /\ \E k \in 1..Len(LineWrites) :
         LET w == LineWrites[k]
         IN  /\ w.line_idx < Len(CellOf(w.item_idx + 1))
             /\ "é" \in {w.text[j] : j \in 1..Len(w.text)}
             /\ w.text[Len(w.text)] = " "

\* C8: the width of column i is the descriptor's explicit width when there
\* is one, whatever the content; otherwise the longest line, in scalars, of
\* column i's own cell (0 without lines).
C8_ColumnWidth ==
    Rendered =>
        /\ N > 0 =>
             column_widths(formats, items, formatted_items(formats, items))
                 = [i \in 1..N |-> ExpectedWidth(i)]
        /\ \A k \in 1..Len(LineWrites) :
             Len(LineWrites[k].text) = ExpectedWidth(LineWrites[k].item_idx + 1)

\* A rendering with an explicit width shorter than the content of its
\* column, next to an auto-sized column whose longest line is not the one
\* with the most bytes.
C8_Witness ==
    /\ Rendered
    /\ buffer # <<>>
    /\ \E i \in 1..N :
         /\ formats[i].width # None
         /\ \E k \in 1..Len(CellOf(i)) : Len(CellOf(i)[k]) > formats[i].width[1]
    /\ \E i \in 1..N :
         /\ formats[i].width = None
         /\ \E k \in 1..Len(CellOf(i)) :
              /\ str_len(CellOf(i)[k]) > ExpectedWidth(i)
              /\ Len(CellOf(i)[k]) < ExpectedWidth(i)

\* C9: the output has as many rows as the longest of the n cells has lines,
\* each row ended by one line break, and a column without a line at a row
\* contributes exactly `width` spaces there.
C9_Rows ==
    Rendered =>
        /\ RowIndices = IF N = 0 THEN {} ELSE 0..(ExpectedRows - 1)
        /\ LineBreaks(output) = IF N = 0 THEN 0 ELSE ExpectedRows
        /\ \A k \in 1..(Len(buffer) - 1) : buffer[k].line_idx <= buffer[k + 1].line_idx
        /\ \A r \in RowIndices :
             /\ IsNewline(RowWrites(r)[Len(RowWrites(r))])
             /\ Len(SelectSeq(RowWrites(r), IsNewline)) = 1
             /\ {RowLineWrites(r)[k].item_idx : k \in 1..Len(RowLineWrites(r))} = 0..(N - 1)
        /\ \A k \in 1..Len(LineWrites) :
             LET w == LineWrites[k]
             IN  w.line_idx >= Len(CellOf(w.item_idx + 1)) =>
                     w.text = [j \in 1..ExpectedWidth(w.item_idx + 1) |-> " "]

\* A rendering of two cells of which the second has more lines than the
\* first, the first being blank-filled at a positive width.
C9_Witness ==
    /\ Rendered
    /\ N = 2
    /\ Len(CellOf(1)) < Len(CellOf(2))
    /\ ExpectedWidth(1) > 0
    /\ Len(SelectSeq(buffer, IsNewline)) = Len(CellOf(2))

\* What C10 expects after column c of a row: the separator of descriptor
\* c + 1 if c is not the last rendered column and the separator is present.
ExpectedSeparator(r, c) ==
    IF c < N - 1 /\ formats[c + 1].separator # None
    THEN <<Write("separator", r, c, formats[c + 1].separator[1])>>
    ELSE <<>>

RECURSIVE ExpectedRowSites(_, _)
ExpectedRowSites(r, c) ==
    IF c >= N THEN <<>>
    ELSE <<Write("line", r, c, <<>>)>> \o ExpectedSeparator(r, c) \o ExpectedRowSites(r, c + 1)

\* A write without the text of a cell.
Site(w) == IF IsLine(w) THEN [w EXCEPT !.text = <<>>] ELSE w

\* C10: in every row the separator of descriptor i is written once, right
\* after column i's cell, for each i < n - 1 (nothing when it is None), and
\* nothing is written after the last rendered column n - 1 but the line break.
C10_Separators ==
    Rendered =>
        \A r \in RowIndices :
            LET row == RowWrites(r)
            IN  [k \in 1..(Len(row) - 1) |-> Site(row[k])] = ExpectedRowSites(r, 0)

\* A rendering with more descriptors than values, whose last rendered
\* descriptor carries a separator, and with a separator written between the
\* rendered columns.
C10_Witness ==
    /\ Rendered
    /\ N >= 2
    /\ Len(formats) > N
    /\ formats[N].separator # None
    /\ \E k \in 1..Len(buffer) : buffer[k].site = "separator"

(***************************************************************************)
(* Unterminated braces (C11), under Spec.                                  *)
(***************************************************************************)
\* The position of the '{' that opens after the last properly closed token
\* and is never closed, or 0 when the template does not end inside a '{'.
UnterminatedOpen(s) ==
    LET ts == Tokens(s)
    IN  FirstAt(s, "{", IF ts = <<>> THEN 1 ELSE ts[Len(ts)].close + 1)

\* C11: a template that ends inside an unterminated '{' parses to exactly
\* the descriptors of the closed tokens before it, each (mode, width,
\* separator) as if the template were cut just before that '{': the text
\* from the '{' on gives no descriptor and lies in no separator.
C11_UnterminatedDropped ==
    (Parsed /\ UnterminatedOpen(format_str) # 0) =>
        /\ Len(formats) = Len(Tokens(format_str))
        /\ formats =
               parse_format_string(SubSeq(format_str, 1, UnterminatedOpen(format_str) - 1))

(***************************************************************************)
(* The macro and the parser (C12), under SpecMacro.                        *)
(***************************************************************************)
\* The texts of the specifiers the parser found, in order.
ParserSpecs(s) ==
    LET fs == SelectSeq(ScanParts(s), LAMBDA part : part.kind = "Format")
    IN  [k \in 1..Len(fs) |-> fs[k].text]

\* C12: the macro's scan finds the tokens the parser finds, in the same
\* order and number; argument i is tagged DebugItem exactly when descriptor
\* i is Debug or PrettyDebug; the item list has length min(arguments,
\* tokens); and every rendered item is shown through the capability its
\* descriptor asks for, never through a fallback.
C12_MacroAgreesWithParser ==
    /\ pc \in {"start", "built", "done"} =>
         /\ format_specs = ParserSpecs(format_str)
         /\ Len(items) =
                IF Len(args) <= Len(format_specs) THEN Len(args) ELSE Len(format_specs)
    /\ pc \in {"built", "done"} =>
         /\ Len(format_specs) = Len(formats)
         /\ \A i \in 1..Len(items) :
              /\ items[i].tag = "DebugItem"
                     <=> formats[i].format_type \in {"Debug", "PrettyDebug"}
              /\ items[i].tag = "DisplayItem" <=> formats[i].format_type = "Display"
              /\ formatted(items[i], formats[i].format_type) =
                     CASE formats[i].format_type = "Display" -> args[i].display
                       [] formats[i].format_type = "Debug" -> args[i].debug
                       [] formats[i].format_type = "PrettyDebug" -> args[i].pretty

\* A rendered call with a pretty-Debug token and a Display token inside a
\* nested '{', each given an argument.
C12_Witness ==
    /\ pc = "done"
    /\ Len(args) = 2
    /\ Len(items) = 2
    /\ items[1].tag = "DebugItem"
    /\ formats[1].format_type = "PrettyDebug"
    /\ items[2].tag = "DisplayItem"
    /\ output # <<>>

=============================================================================
